---- MODULE Spec2Model ----
(***************************************************************************)
(* Authentication flow of the acquisitions API: the sign-up, sign-in and   *)
(* sign-out controllers, the cookie helper, the auth service they call,    *)
(* the users table and the client's cookie jar.                            *)
(*                                                                         *)
(* A request is one slot of reqs.  A handler runs from one await to the    *)
(* next as one action; the awaits are the interleaving points.             *)
(***************************************************************************)
EXTENDS Integers, Sequences, FiniteSets, TLC

\* ------------------------------------------------------------- bounds
MaxReqs == 3

Reqs == 1..MaxReqs

\* ------------------------------------------------------------- inputs
NONE == "undefined"

Emails == {"a@x.com", "b@x.com"}
Roles == {"user", "admin"}

Body(name, email, password, role) ==
  [name |-> name, email |-> email, password |-> password, role |-> role]

\* sign-up bodies: two users, one without a role, and a body that breaks every
\* rule of the schema
Bodies ==
  { Body("Ann", "a@x.com", "secret123", NONE),
    Body("Bob", "b@x.com", "secret456", "admin"),
    Body("Eve", NONE, "", "root") }

\* sign-in bodies: the two users' credentials, a wrong password, a malformed body
SigninBodies ==
  { [email |-> "a@x.com", password |-> "secret123"],
    [email |-> "a@x.com", password |-> "secret456"],
    [email |-> "b@x.com", password |-> "secret456"],
    [email |-> "not-an-email", password |-> ""] }

\* ------------------------------------------------------------- error messages
\* what the auth service throws when the email is already registered
MsgUserExists == "User with this email already exists"
\* what the auth service throws when no user has the email
MsgUserNotFound == "User not found"
\* what authenticateUser throws when bcrypt.compare fails
MsgInvalidPassword == "Invalid Password"
\* what the store raises when an insert breaks users.email's unique constraint
MsgUniqueViolation == "duplicate key value violates unique constraint"
\* what formatValidationError raises: i.message is a string and has no join
MsgJoinTypeError == "i.message.join is not a function"

\* ------------------------------------------------------------- values
NoUser == [id |-> 0, name |-> NONE, email |-> NONE, role |-> NONE]
NoToken == <<>>
NoJson == [none |-> TRUE]

\* bcrypt.hash / bcrypt.compare
hashPassword(p) == <<"bcrypt", p>>
comparePassword(p, h) == h = hashPassword(p)

\* jwttoken.sign over the payload the controller builds
jwtSign(payload) == <<"jwt", payload.id, payload.email, payload.role>>

VARIABLES
  reqs,     \* the requests: body, position in the handler, the response
  users,    \* the users table
  jar,      \* the cookies the client holds
  nodeEnv   \* process.env.NODE_ENV

vars == <<reqs, users, jar, nodeEnv>>

\* ------------------------------------------------------------- cookies.js
\* { ...a, ...b }
Spread(a, b) ==
  [k \in (DOMAIN a) \cup (DOMAIN b) |-> IF k \in DOMAIN b THEN b[k] ELSE a[k]]

NoOptions == [k \in {} |-> TRUE]

cookies_getOptions ==
  [httpOnly |-> TRUE,
   secure   |-> (nodeEnv = "production"),
   sameSite |-> "strict",
   maxAfge  |-> 15 * 60 * 1000]

\* express res.cookie: path defaults to "/", and a maxAge option becomes the expiry
res_cookie(q, name, value, options) ==
  LET o1 == IF "maxAge" \in DOMAIN options
            THEN Spread(options, [expires |-> "now+maxAge"])
            ELSE options
      o2 == IF "path" \in DOMAIN o1 THEN o1 ELSE Spread(o1, [path |-> "/"])
  IN [q EXCEPT !.setCookie = Append(@, [name |-> name, value |-> value, opts |-> o2])]

\* express res.clearCookie: an empty value that expired at the epoch
res_clearCookie(q, name, options) ==
  res_cookie(q, name, NoToken, Spread([expires |-> "epoch", path |-> "/"], options))

cookies_set(q, name, value, option) ==
  res_cookie(q, name, value, Spread(cookies_getOptions, option))

\* a clear that forgets the options set used
cookies_clear_bare(q, name, options) ==
  res_clearCookie(q, name, options)

cookies_clear(q, name, options) ==
  res_clearCookie(q, name, Spread(cookies_getOptions, options))

cookies_get(q, name) ==
  IF name \in DOMAIN q.cookies THEN q.cookies[name] ELSE NoToken

\* ------------------------------------------------------------- the client
\* the client stores a cookie under its name and path; one that has expired
\* removes the stored cookie and is not stored
SameCookie(c, h) == c.name = h.name /\ c.opts.path = h.opts.path

Expired(h) == "expires" \in DOMAIN h.opts /\ h.opts.expires = "epoch"

ClientStore(j, h) ==
  LET rest == {c \in j : ~SameCookie(c, h)}
  IN IF Expired(h) THEN rest ELSE rest \cup {h}

RECURSIVE ClientReceive(_, _)
ClientReceive(j, hs) ==
  IF hs = <<>> THEN j ELSE ClientReceive(ClientStore(j, Head(hs)), Tail(hs))

\* req.cookies as cookie-parser builds it from what the client sends
RequestCookies(j) ==
  [n \in {c.name : c \in j} |-> (CHOOSE c \in j : c.name = n).value]

\* ------------------------------------------------------------- validation
\* the fields of a sign-up body the schema rejects
signupIssues(body) ==
  {f \in {"email", "password", "role"} :
     \/ f = "email" /\ body.email \notin Emails
     \/ f = "password" /\ body.password = ""
     \/ f = "role" /\ body.role \notin Roles \cup {NONE}}

\* signupSchema.safeParse: the role defaults to "user"
signupSchema_safeParse(body) ==
  [success |-> signupIssues(body) = {},
   issues  |-> signupIssues(body),
   data    |-> [body EXCEPT !.role = IF @ = NONE THEN "user" ELSE @]]

signinIssues(body) ==
  {f \in {"email", "password"} :
     \/ f = "email" /\ body.email \notin Emails
     \/ f = "password" /\ body.password = ""}

signinSchema_safeParse(body) ==
  [success |-> signinIssues(body) = {},
   issues  |-> signinIssues(body),
   data    |-> body]

\* formatValidationError maps i => i.message.join(','): a zod issue's message is a
\* string, so the first issue raises a TypeError
formatValidationError(issues) ==
  IF issues = {}
  THEN [threw |-> FALSE, message |-> "", details |-> {}]
  ELSE [threw |-> TRUE, message |-> MsgJoinTypeError, details |-> {}]

\* ------------------------------------------------------------- response
res_status(q, code) == [q EXCEPT !.status = code]

res_json(q, body) == [q EXCEPT !.json = body, !.writes = @ + 1]

next(q, message) == [q EXCEPT !.nexts = @ + 1, !.delegated = message]

logger(q, line) == [q EXCEPT !.log = Append(@, line)]

\* logger.error(line, error) in a catch block: caught is the error it was given
logger_error(q, line, message) ==
  [q EXCEPT !.log = Append(@, line), !.caught = message]

step(q, name) == [q EXCEPT !.steps = Append(@, name)]

\* the payload both success responses carry
userPayload(user) ==
  [id |-> user.id, name |-> user.name, email |-> user.email, role |-> user.role]

\* ------------------------------------------------------------- the users table
EmailTaken(email) == \E u \in users : u.email = email

\* the row an insert adds; the id is the next of the serial column
NewRow(data, hash) ==
  [id |-> Cardinality(users) + 1, name |-> data.name, email |-> data.email,
   password |-> hash, role |-> data.role]

\* ------------------------------------------------------------- requests
NoBody == [name |-> NONE, email |-> NONE, password |-> NONE, role |-> NONE]

Done(p) == reqs[p].pc = "done"

\* a request as the handler receives it: nothing written to the response yet
Request(kind, body, cookies, prior, pc) ==
  [kind |-> kind, handler |-> "", body |-> body, data |-> NoBody,
   cookies |-> cookies, prior |-> prior,
   pc |-> pc, status |-> 0, json |-> NoJson, writes |-> 0, nexts |-> 0,
   caught |-> "", delegated |-> "", setCookie |-> <<>>, found |-> {}, hash |-> <<>>,
   user |-> NoUser, token |-> NoToken, log |-> <<>>, steps |-> <<>>]

\* it carries the client's cookies; prior is the requests already answered
NewReq(kind, body) ==
  Request(kind, body, RequestCookies(jar), {p \in Reqs : Done(p)}, "start")

Idle == Request("none", NoBody, NoOptions, {}, "idle")

CanStart(r) ==
  /\ reqs[r].pc = "idle"
  /\ \A p \in Reqs : p < r => reqs[p].pc # "idle"

Finish(q) == [q EXCEPT !.pc = "done"]

\* the client receives the response's Set-Cookie headers when the response is sent
Deliver(q) == IF q.writes > 0 THEN ClientReceive(jar, q.setCookie) ELSE jar

\* ------------------------------------------------------------- signup (controller)
\* a catch block whose 409 branch does not return
signup_catch_fallthrough(q, message) ==
  LET q1 == logger_error(q, "Signup Error", message)
      q2 == IF message = "User with this email already exists"
            THEN res_json(res_status(q1, 409), [error |-> "Email already exists"])
            ELSE q1
  IN next(q2, message)

\* the catch block of signup
signup_catch(q, message) ==
  LET q1 == logger_error(q, "Signup Error", message)
  IN IF message = "User with this email already exists"
     THEN res_json(res_status(q1, 409), [error |-> "Email already exists"])
     ELSE next(q1, message)

\* the validation failure branch of signup: res.status(400), then the argument of
\* json is evaluated, and what it throws lands in the catch block
signup_invalid(q, issues) ==
  LET q1 == res_status(q, 400)
      f  == formatValidationError(issues)
  IN IF f.threw
     THEN signup_catch(q1, f.message)
     ELSE res_json(q1, [error |-> "Validation Failed", details |-> f.details])

\* a sign-up that answers before it sets the cookie
signup_respond_early(q, user) ==
  LET token == jwtSign([id |-> user.id, email |-> user.email, role |-> user.role])
      q1 == [step(q, "sign") EXCEPT !.user = user, !.token = token]
      q2 == res_json(res_status(step(q1, "respond"), 201),
                     [message |-> "User registered", user |-> userPayload(user)])
  IN cookies_set(step(q2, "cookie"), "token", token, NoOptions)

\* after createUser returned: sign, set the cookie, respond 201
signup_respond(q, user) ==
  LET token == jwtSign([id |-> user.id, email |-> user.email, role |-> user.role])
      q1 == [step(q, "sign") EXCEPT !.user = user, !.token = token]
      q2 == cookies_set(step(q1, "cookie"), "token", token, NoOptions)
      q3 == logger(q2, "User registered successfully")
  IN res_json(res_status(step(q3, "respond"), 201),
              [message |-> "User registered", user |-> userPayload(user)])

signup_validate(r) ==
  \E body \in Bodies :
    /\ CanStart(r)
    /\ LET q  == step([NewReq("signup", body) EXCEPT !.handler = "signup"], "validate")
           vr == signupSchema_safeParse(body)
           q1 == IF vr.success
                 THEN [q EXCEPT !.pc = "check", !.data = vr.data]
                 ELSE Finish(signup_invalid(q, vr.issues))
       IN /\ reqs' = [reqs EXCEPT ![r] = q1]
          /\ jar' = Deliver(q1)
    /\ UNCHANGED <<users, nodeEnv>>

\* createUser: is the email registered?
createUser_check(r) ==
  /\ reqs[r].pc = "check"
  /\ LET q  == step(reqs[r], "check")
         q1 == IF EmailTaken(q.data.email)
               THEN Finish(signup_catch(q, MsgUserExists))
               ELSE [q EXCEPT !.pc = "hash"]
     IN /\ reqs' = [reqs EXCEPT ![r] = q1]
        /\ jar' = Deliver(q1)
  /\ UNCHANGED <<users, nodeEnv>>

\* createUser: bcrypt.hash
createUser_hash(r) ==
  /\ reqs[r].pc = "hash"
  /\ reqs' = [reqs EXCEPT ![r] =
        [step(@, "hash") EXCEPT !.pc = "insert",
                                !.hash = hashPassword(reqs[r].data.password)]]
  /\ UNCHANGED <<users, jar, nodeEnv>>

\* createUser: the insert, which the unique constraint on email may refuse, and the
\* rest of the controller once createUser returned or threw
createUser_insert(r) ==
  /\ reqs[r].pc = "insert"
  /\ LET q   == step(reqs[r], "insert")
         row == NewRow(q.data, q.hash)
     IN IF EmailTaken(q.data.email)
        THEN LET q1 == Finish(signup_catch(q, MsgUniqueViolation))
             IN /\ reqs' = [reqs EXCEPT ![r] = q1]
                /\ jar' = Deliver(q1)
                /\ UNCHANGED users
        ELSE LET q1 == Finish(signup_respond(q, userPayload(row)))
             IN /\ users' = users \cup {row}
                /\ reqs' = [reqs EXCEPT ![r] = q1]
                /\ jar' = Deliver(q1)
  /\ UNCHANGED nodeEnv

\* ------------------------------------------------------------- signin (controller)
signin_catch(q, message) ==
  LET q1 == logger_error(q, "Signin Error", message)
  IN IF message = "User not found" \/ message = "Invalid credentials"
     THEN res_json(res_status(q1, 401), [error |-> "Invalid email or password"])
     ELSE next(q1, message)

signin_invalid(q, issues) ==
  LET q1 == res_status(q, 400)
      f  == formatValidationError(issues)
  IN IF f.threw
     THEN signin_catch(q1, f.message)
     ELSE res_json(q1, [error |-> "Validation Failed", details |-> f.details])

\* after authenticateUser returned: sign, set the cookie, respond 200
signin_respond(q, user) ==
  LET token == jwtSign([id |-> user.id, email |-> user.email, role |-> user.role])
      q1 == [step(q, "sign") EXCEPT !.user = user, !.token = token]
      q2 == cookies_set(step(q1, "cookie"), "token", token, NoOptions)
      q3 == logger(q2, "User signed in successfully")
  IN res_json(res_status(step(q3, "respond"), 200),
              [message |-> "User signed in", user |-> userPayload(user)])

signin_validate(r) ==
  \E body \in SigninBodies :
    /\ CanStart(r)
    /\ LET q  == step([NewReq("signin", Spread(NoBody, body)) EXCEPT !.handler = "signin"],
                      "validate")
           vr == signinSchema_safeParse(q.body)
           q1 == IF vr.success
                 THEN [q EXCEPT !.pc = "lookup", !.data = vr.data]
                 ELSE Finish(signin_invalid(q, vr.issues))
       IN /\ reqs' = [reqs EXCEPT ![r] = q1]
          /\ jar' = Deliver(q1)
    /\ UNCHANGED <<users, nodeEnv>>

\* authenticateUser: load the user by email
authenticateUser_lookup(r) ==
  /\ reqs[r].pc = "lookup"
  /\ LET q  == step(reqs[r], "lookup")
         us == {u \in users : u.email = q.data.email}
         q1 == IF us = {}
               THEN Finish(signin_catch(q, MsgUserNotFound))
               ELSE [q EXCEPT !.pc = "compare", !.found = us]
     IN /\ reqs' = [reqs EXCEPT ![r] = q1]
        /\ jar' = Deliver(q1)
  /\ UNCHANGED <<users, nodeEnv>>

\* authenticateUser: bcrypt.compare, and the rest of the controller once
\* authenticateUser returned or threw
authenticateUser_compare(r) ==
  /\ reqs[r].pc = "compare"
  /\ LET q  == step(reqs[r], "compare")
         u  == CHOOSE u \in q.found : TRUE
         q1 == IF comparePassword(q.data.password, u.password)
               THEN Finish(signin_respond(q, userPayload(u)))
               ELSE Finish(signin_catch(q, MsgInvalidPassword))
     IN /\ reqs' = [reqs EXCEPT ![r] = q1]
        /\ jar' = Deliver(q1)
  /\ UNCHANGED <<users, nodeEnv>>

\* ------------------------------------------------------------- signout (controller)
\* a sign-out that clears the cookie only when the request carried one
signout_handler_guarded(q) ==
  LET token == cookies_get(q, "token")
      q1 == IF token # NoToken
            THEN logger(cookies_clear(step(q, "clear"), "token", NoOptions),
                        "User signed out successfully")
            ELSE logger(q, "Signout called without an active session")
  IN res_json(res_status(step(q1, "respond"), 200), [message |-> "User signed out"])

signout_handler(q) ==
  LET token == cookies_get(q, "token")
      q1 == cookies_clear(step(q, "clear"), "token", NoOptions)
      q2 == IF token # NoToken
            THEN logger(q1, "User signed out successfully")
            ELSE logger(q1, "Signout called without an active session")
  IN res_json(res_status(step(q2, "respond"), 200), [message |-> "User signed out"])

signout(r) ==
  /\ CanStart(r)
  /\ LET q1 == Finish(signout_handler([NewReq("signout", NoBody) EXCEPT !.handler = "signout"]))
     IN /\ reqs' = [reqs EXCEPT ![r] = q1]
        /\ jar' = Deliver(q1)
  /\ UNCHANGED <<users, nodeEnv>>

\* ------------------------------------------------------------- signup (controllers/auth.controller.js)
authController_catch(q, message) ==
  LET q1 == logger_error(q, "Signup Error", message)
  IN IF message = "User with this email already exists"
     THEN res_json(res_status(q1, 409), [error |-> "Email already exists"])
     ELSE next(q1, message)

authController_invalid(q, issues) ==
  LET q1 == res_status(q, 400)
      f  == formatValidationError(issues)
  IN IF f.threw
     THEN authController_catch(q1, f.message)
     ELSE res_json(q1, [error |-> "Validation Failed", details |-> f.details])

\* no service call, no token, no cookie: 201 with the request's own fields and id 1
authController_respond(q, data) ==
  LET q1 == logger(q, "User registered successfully")
  IN res_json(res_status(step(q1, "respond"), 201),
              [message |-> "User registered",
               user |-> [id |-> 1, name |-> data.name, email |-> data.email,
                         role |-> data.role]])

authController_signup(r) ==
  \E body \in Bodies :
    /\ CanStart(r)
    /\ LET q  == step([NewReq("signup", body) EXCEPT !.handler = "authController_signup"],
                      "validate")
           vr == signupSchema_safeParse(body)
           q1 == IF vr.success
                 THEN Finish(authController_respond([q EXCEPT !.data = vr.data], vr.data))
                 ELSE Finish(authController_invalid(q, vr.issues))
       IN /\ reqs' = [reqs EXCEPT ![r] = q1]
          /\ jar' = Deliver(q1)
    /\ UNCHANGED <<users, nodeEnv>>

\* ------------------------------------------------------------- specification
Init ==
  /\ reqs = [r \in Reqs |-> Idle]
  /\ users = {}
  /\ jar = {}
  /\ nodeEnv \in {"production", "development"}

Next ==
  \E r \in Reqs :
    \/ signup_validate(r)
    \/ createUser_check(r)
    \/ createUser_hash(r)
    \/ createUser_insert(r)
    \/ signin_validate(r)
    \/ authenticateUser_lookup(r)
    \/ authenticateUser_compare(r)
    \/ signout(r)
    \/ authController_signup(r)

Spec == Init /\ [][Next]_vars

\* ------------------------------------------------------------- vocabulary of the claims
Has(q, name) == \E i \in DOMAIN q.steps : q.steps[i] = name

Wrote(q, code) == q.writes = 1 /\ q.status = code

Succeeded(q) == Wrote(q, 200) \/ Wrote(q, 201)

ClientError(q) == Wrote(q, 400) \/ Wrote(q, 401) \/ Wrote(q, 409)

Delegated(q) == q.nexts = 1 /\ q.writes = 0

\* the cookies a response sets, as opposed to those it clears
SetOps(q) == {i \in DOMAIN q.setCookie : ~Expired(q.setCookie[i])}

TokenCookies(j) == {c \in j : c.name = "token"}

Issues(q) ==
  IF q.kind = "signup" THEN signupIssues(q.body) ELSE signinIssues(q.body)

\* the errors the controllers recognise
Taxonomy == {"User with this email already exists", "User not found", "Invalid credentials"}

IsPrefix(s, t) == Len(s) <= Len(t) /\ \A i \in 1..Len(s) : s[i] = t[i]

StepOrder(kind) ==
  IF kind = "signup"
  THEN <<"validate", "check", "hash", "insert", "sign", "cookie", "respond">>
  ELSE <<"validate", "lookup", "compare", "sign", "cookie", "respond">>

\* ------------------------------------------------------------- claims
\* C1: a sign-in that authenticateUser refuses, because no user has the email or
\* because the password is wrong, is answered 401 with the one body
\* 'Invalid email or password' and is not handed to the error handler.
C1_RefusedSigninIs401 ==
  \A r \in Reqs :
    LET q == reqs[r]
    IN (q.handler = "signin" /\ Done(r) /\ Has(q, "lookup") /\ q.user = NoUser)
       => /\ Wrote(q, 401)
          /\ q.json = [error |-> "Invalid email or password"]
          /\ q.nexts = 0

\* C2: of the sign-ups that signup serves for one email, in any interleaving, at
\* most one answers 201, every other answers 409 'Email already exists' and none is
\* handed to the error handler, and the table never holds two users with the email.
C2_OneSignupPerEmail ==
  \A e \in Emails :
    LET S == {r \in Reqs : /\ reqs[r].handler = "signup"
                           /\ Done(r)
                           /\ Issues(reqs[r]) = {}
                           /\ reqs[r].body.email = e}
    IN /\ Cardinality({r \in S : Wrote(reqs[r], 201)}) <= 1
       /\ \A r \in S : \/ Wrote(reqs[r], 201)
                       \/ /\ Wrote(reqs[r], 409)
                          /\ reqs[r].json = [error |-> "Email already exists"]
                          /\ reqs[r].nexts = 0
       /\ Cardinality({u \in users : u.email = e}) <= 1

\* C3: every cookie that cookies.set hands to the response without an overriding
\* lifetime carries a maxAge attribute equal to the configured 15 minutes.
C3_MaxAgeOnEverySet ==
  \A r \in Reqs :
    \A i \in SetOps(reqs[r]) :
      LET o == reqs[r].setCookie[i].opts
      IN "maxAge" \in DOMAIN o /\ o.maxAge = 15 * 60 * 1000

\* C4: a sign-up answered 201 carries a user payload of exactly id, name, email and
\* role, equal to a row of the users table made from the request (the role "user"
\* when the request gave none), and sets the 'token' cookie, httpOnly, to a token
\* signed over that id, email and role.
C4_SignupSuccessPayload ==
  \A r \in Reqs :
    LET q == reqs[r]
    IN (q.kind = "signup" /\ Done(r) /\ Wrote(q, 201))
       => /\ "user" \in DOMAIN q.json
          /\ DOMAIN q.json.user = {"id", "name", "email", "role"}
          /\ \E u \in users :
               /\ userPayload(u) = q.json.user
               /\ u.name = q.body.name
               /\ u.email = q.body.email
               /\ u.role = (IF q.body.role = NONE THEN "user" ELSE q.body.role)
          /\ \E i \in SetOps(q) :
               /\ q.setCookie[i].name = "token"
               /\ q.setCookie[i].opts.httpOnly = TRUE
               /\ q.setCookie[i].value = jwtSign(q.json.user)

\* C5: a sign-in sent after a sign-up was answered 201, with that sign-up's email
\* and password, is answered 200 with the id, email and role of the sign-up's answer.
C5_SignupThenSignin ==
  \A s, i \in Reqs :
    (/\ reqs[s].kind = "signup" /\ Done(s) /\ Wrote(reqs[s], 201)
     /\ reqs[i].kind = "signin" /\ Done(i) /\ s \in reqs[i].prior
     /\ reqs[i].body.email = reqs[s].body.email
     /\ reqs[i].body.password = reqs[s].body.password)
    => /\ Wrote(reqs[i], 200)
       /\ reqs[i].json.user.id = reqs[s].json.user.id
       /\ reqs[i].json.user.email = reqs[s].json.user.email
       /\ reqs[i].json.user.role = reqs[s].json.user.role

\* C6: every sign-out, with or without a 'token' cookie in the request and whatever
\* was answered before, clears the 'token' cookie and answers 200 'User signed out';
\* the cookie decides only the line that is logged.
C6_SignoutUnconditional ==
  \A r \in Reqs :
    LET q == reqs[r]
    IN (q.kind = "signout" /\ Done(r))
       => /\ Wrote(q, 200)
          /\ q.json = [message |-> "User signed out"]
          /\ q.nexts = 0
          /\ Len(q.setCookie) = 1
          /\ q.setCookie[1].name = "token"
          /\ Expired(q.setCookie[1])
          /\ q.log = IF "token" \in DOMAIN q.cookies
                     THEN <<"User signed out successfully">>
                     ELSE <<"Signout called without an active session">>

\* a sign-out that carried the cookie, and a later one that did not
C6_Witness ==
  \E r1, r2 \in Reqs :
    /\ reqs[r1].kind = "signout" /\ Done(r1) /\ "token" \in DOMAIN reqs[r1].cookies
    /\ reqs[r2].kind = "signout" /\ Done(r2) /\ r1 \in reqs[r2].prior
    /\ "token" \notin DOMAIN reqs[r2].cookies

\* C7: when a sign-out is answered, the clear it issued names each cookie 'token'
\* the client held with the same httpOnly, secure, sameSite and path as that cookie
\* was set with, and the client holds no 'token' cookie afterwards.
C7_SetThenClear ==
  [][\A r \in Reqs :
       (reqs[r].pc = "idle" /\ reqs'[r].kind = "signout")
       => /\ TokenCookies(jar') = {}
          /\ \A c \in TokenCookies(jar) :
               \E i \in DOMAIN reqs'[r].setCookie :
                 LET h == reqs'[r].setCookie[i]
                 IN /\ h.name = c.name
                    /\ \A k \in {"httpOnly", "secure", "sameSite", "path"} :
                         /\ k \in DOMAIN h.opts
                         /\ k \in DOMAIN c.opts
                         /\ h.opts[k] = c.opts[k]]_vars

\* a sign-out whose request carried the cookie a sign-up or sign-in had set
C7_Witness ==
  \E r \in Reqs :
    /\ reqs[r].kind = "signout" /\ Done(r)
    /\ "token" \in DOMAIN reqs[r].cookies
    /\ reqs[r].cookies["token"] # NoToken
    /\ TokenCookies(jar) = {}

\* C8: a sign-up or sign-in, served by signup or signin, whose body the schema
\* rejects is answered 400
\* 'Validation Failed' with one detail per rejected field; the service is not
\* called, no token is signed, no cookie is set and nothing reaches the error handler.
C8_InvalidBodyIs400 ==
  \A r \in Reqs :
    LET q == reqs[r]
    IN (q.handler \in {"signup", "signin"} /\ Done(r) /\ Issues(q) # {})
       => /\ Wrote(q, 400)
          /\ "details" \in DOMAIN q.json
          /\ q.json.error = "Validation Failed"
          /\ Cardinality(q.json.details) = Cardinality(Issues(q))
          /\ q.steps = <<"validate">>
          /\ q.token = NoToken
          /\ q.setCookie = <<>>
          /\ q.nexts = 0

\* C9: a request writes its response or is handed to the error handler at most once
\* in all; once it has ended it did exactly one of the two, as a success (200, 201),
\* a client error (400, 401, 409) or a delegation; and a caught error that is none
\* of the three the controllers recognise is delegated, with no response written.
C9_OneTerminalState ==
  \A r \in Reqs :
    LET q == reqs[r]
    IN /\ q.writes + q.nexts <= 1
       /\ Done(r) => /\ q.writes + q.nexts = 1
                     /\ Succeeded(q) \/ ClientError(q) \/ Delegated(q)
       /\ (Done(r) /\ q.caught # "" /\ q.caught \notin Taxonomy)
            => (Delegated(q) /\ q.delegated = q.caught)
       /\ (Done(r) /\ q.caught \in Taxonomy) => ClientError(q)
       /\ (Done(r) /\ q.caught = "") => Succeeded(q)

\* all three terminal states at once: a success, a client error and a delegation of
\* an error the controllers do not recognise
C9_Witness ==
  \E a, b, c \in Reqs :
    /\ Done(a) /\ Succeeded(reqs[a])
    /\ Done(b) /\ ClientError(reqs[b])
    /\ Done(c) /\ Delegated(reqs[c]) /\ reqs[c].caught \notin Taxonomy

====
